---- MODULE Spec2Model ----
(***************************************************************************)
(* smol-potat: the attribute macros `main`, `test` and `bench`.            *)
(*                                                                         *)
(* Two programs are modelled.  The macro crate                             *)
(* (src/smol-potat-macro/src/lib.rs) is the current design; the root crate *)
(* (src/src/lib.rs) is an earlier variant of `main`.  Each expansion is    *)
(* one step (the whole proc-macro call), followed by the execution of the  *)
(* function it generated: the calling thread, the worker threads, the      *)
(* shutdown channel and the user's async body.                             *)
(***************************************************************************)
EXTENDS Integers, Sequences, FiniteSets, TLC

VARIABLES
    kind,         \* which attribute is applied: "main", "test", "bench"
    item,         \* the annotated function (syn::ItemFn)
    args,         \* the attribute's argument list, a sequence of name = literal
    opts,         \* what Opts::parse returned (macro crate only)
    diags,        \* compile_error! diagnostics in the returned token stream
    gen,          \* functions in the returned token stream
    pc,           \* position of the calling thread
    inner,        \* the user's async body: "none", "pending", "resolved"
    r,            \* the value the async body resolved to
    ret,          \* the value the generated function returned
    iters,        \* how many times the blocking call was started (b.iter)
    nthreads,     \* `let threads = ...` of the generated body
    workers,      \* state of each worker thread
    closed,       \* the shutdown channel is closed (its only sender dropped)
    observed,     \* per worker: closed-channel events it has observed
    resolves,     \* how many times the async body resolved
    drops         \* how many times the signal sender was dropped

vars == <<kind, item, args, opts, diags, gen, pc, inner, r, ret, iters,
          nthreads, workers, closed, observed, resolves, drops>>

inputVars == <<kind, item, args>>
runVars == <<inner, r, ret, iters, nthreads, workers, closed, observed,
             resolves, drops>>

----------------------------------------------------------------------------
(* Bounds of the model *)

\* longest attribute argument list drawn
MaxArgs == 2
\* largest valid thread count drawn (and largest num_cpus::get())
MaxThreads == 2
\* most iterations the bench harness runs the closure
MaxIters == 2

----------------------------------------------------------------------------
(* Inputs *)

Kinds == {"main", "test", "bench"}

\* A function declaration: its name, the number of parameters, `async` or not.
Items == [name : {"main", "my_fn"}, inputs : 0..1, asyncness : BOOLEAN]

\* An integer literal is kept as two 16-bit halves, value = hi * 2^16 + lo, so
\* that a literal beyond u32 can be written down.
Half == 2 ^ 16

IntLit(hi, lo) == [type |-> "Int", hi |-> hi, lo |-> lo, str |-> ""]

StrLit(s) == [type |-> "Str", hi |-> 0, lo |-> 0, str |-> s]

\* 0, 1, the largest thread count drawn, and 2^32 (too large for u32)
IntLits == {IntLit(0, 0), IntLit(0, 1), IntLit(0, MaxThreads), IntLit(Half, 0)}

\* two module paths and a string that is no path
StrLits == {StrLit("a"), StrLit("b"), StrLit("1x")}

Keys == {"threads", "THREADS", "crate", "foo"}

NameValues == [key : Keys, lit : IntLits \cup StrLits]

RECURSIVE SeqsUpTo(_, _)
SeqsUpTo(S, n) ==
    IF n = 0 THEN {<<>>}
    ELSE LET shorter == SeqsUpTo(S, n - 1)
         IN  shorter \cup {Append(s, x) : s \in {t \in shorter : Len(t) = n - 1}, x \in S}

ArgLists == SeqsUpTo(NameValues, MaxArgs)

----------------------------------------------------------------------------
(* Diagnostics: the kind of the spec's taxonomy and the message of the code *)

Diag(k, m) == [kind |-> k, msg |-> m]

NoDiag == Diag("none", "")

NotAsyncDiag == Diag("NotAsync", "the async keyword is missing from the function declaration")

WrongNameDiag == Diag("WrongName", "only the main function can be tagged with #[smol::main]")

----------------------------------------------------------------------------
(* Opts::parse of the macro crate *)

None == [some |-> FALSE, num |-> 0]

Some(n) == [some |-> TRUE, num |-> n]

NoPath == ""

DefaultCrateRoot == "::smol_potat"

to_lowercase(k) ==
    CASE k = "THREADS" -> "threads"
      [] OTHER -> k

\* LitInt::base10_parse::<u32>: the digits must fit 32 bits.
base10_parse_u32(lit) ==
    IF lit.hi < Half
    THEN [ok |-> TRUE, num |-> lit.hi * Half + lit.lo, err |-> NoDiag]
    ELSE [ok |-> FALSE, num |-> 0,
          err |-> Diag("InvalidThreadsValue", "number too large to fit in target type")]

\* Mutant: the count is parsed as a plain u32, so zero passes.
ParseAllowingZero(lit) == base10_parse_u32(lit)

\* LitInt::base10_parse::<NonZeroU32>: as u32, and zero is refused.
base10_parse_NonZeroU32(lit) ==
    IF lit.hi = 0 /\ lit.lo = 0
    THEN [ok |-> FALSE, num |-> 0,
          err |-> Diag("InvalidThreadsValue", "number would be zero for non-zero type")]
    ELSE base10_parse_u32(lit)

\* LitStr::parse::<syn::Path>: a path starts with an identifier or `::`.
IsPath(s) == s \in {"a", "b", DefaultCrateRoot}

ParseErr(d) == [ok |-> FALSE, err |-> d, crate_root |-> NoPath, threads |-> None]

\* Mutant: the integer is parsed before the duplicate check.
ThreadsArmParseFirst(nv, threads) ==
    IF nv.lit.type = "Int"
    THEN IF ~base10_parse_NonZeroU32(nv.lit).ok
         THEN base10_parse_NonZeroU32(nv.lit).err
         ELSE IF threads.some
              THEN Diag("DuplicateOption", "multiple threads argments")
              ELSE NoDiag
    ELSE Diag("InvalidThreadsValue", "threads argument must be an integer")

\* The "threads" arm of one loop iteration: the literal's type is matched
\* first, the duplicate check is inside the integer arm and precedes the parse.
\* Returns the diagnostic, or NoDiag when the iteration stores the value.
ThreadsArm(nv, threads) ==
    IF nv.lit.type = "Int"
    THEN IF threads.some
         THEN Diag("DuplicateOption", "multiple threads argments")
         ELSE base10_parse_NonZeroU32(nv.lit).err
    ELSE Diag("InvalidThreadsValue", "threads argument must be an integer")

\* The "crate" arm of one loop iteration.
CrateArm(nv, crate_root) ==
    IF nv.lit.type = "Str"
    THEN IF crate_root # NoPath
         THEN Diag("DuplicateOption", "multiple crate arguments")
         ELSE IF IsPath(nv.lit.str) THEN NoDiag
              ELSE Diag("InvalidCrateValue", "expected identifier")
    ELSE Diag("InvalidCrateValue", "crate argument must be a string")

RECURSIVE ParseLoop(_, _, _, _)
ParseLoop(input, i, crate_root, threads) ==
    IF i > Len(input)
    THEN [ok |-> TRUE, err |-> NoDiag,
          crate_root |-> IF crate_root = NoPath THEN DefaultCrateRoot ELSE crate_root,
          threads |-> threads]
    ELSE LET nv == input[i]
             name == to_lowercase(nv.key)
         IN  CASE name = "threads" ->
                    LET d == ThreadsArm(nv, threads)
                    IN  IF d # NoDiag THEN ParseErr(d)
                        ELSE ParseLoop(input, i + 1, crate_root,
                                       Some(base10_parse_NonZeroU32(nv.lit).num))
               [] name = "crate" ->
                    LET d == CrateArm(nv, crate_root)
                    IN  IF d # NoDiag THEN ParseErr(d)
                        ELSE ParseLoop(input, i + 1, nv.lit.str, threads)
               [] OTHER ->
                    ParseErr(Diag("UnknownOption",
                                  "unknown attribute {}, expected threads or crate"))

OptsParse(input) == ParseLoop(input, 1, NoPath, None)

----------------------------------------------------------------------------
(* The three attribute macros of the macro crate.  Each returns the token   *)
(* stream as the diagnostics and the functions it holds.                    *)

Tokens(ds, fs, o) == [diags |-> ds, gen |-> fs, opts |-> o]

Fn(k, name, policy, threads, auto, crate_root) ==
    [kind |-> k, name |-> name, policy |-> policy, threads |-> threads,
     auto |-> auto, crate_root |-> crate_root]

\* `let threads = match opts.threads`: the explicit count, or with feature
\* "auto" the number of CPUs, or none.
ThreadsExpr(o, auto) ==
    IF o.threads.some THEN [some |-> TRUE, num |-> o.threads.num, auto |-> FALSE]
    ELSE IF auto THEN [some |-> TRUE, num |-> 0, auto |-> TRUE]
    ELSE [some |-> FALSE, num |-> 0, auto |-> FALSE]

\* Mutant: `async` is checked before the name and the parameters.
MainChecksAsyncFirst(f) ==
    IF ~f.asyncness THEN NotAsyncDiag
    ELSE IF f.name # "main" THEN WrongNameDiag
    ELSE IF f.inputs # 0
    THEN Diag("UnexpectedParameters", "the main function cannot take parameters")
    ELSE NoDiag

\* The checks of `main`, in the order of the code: name, parameters, async.
MainChecks(f) ==
    IF f.name # "main" THEN WrongNameDiag
    ELSE IF f.inputs # 0
    THEN Diag("UnexpectedParameters", "the main function cannot take parameters")
    ELSE IF ~f.asyncness THEN NotAsyncDiag
    ELSE NoDiag

\* Mutant: the signature is validated before the options are parsed.
MacroMainSignatureFirst(f, input, auto) ==
    LET o == OptsParse(input)
    IN  IF MainChecks(f) # NoDiag THEN Tokens(<<MainChecks(f)>>, <<>>, o)
        ELSE IF ~o.ok THEN Tokens(<<o.err>>, <<>>, o)
        ELSE LET t == ThreadsExpr(o, auto)
             IN  Tokens(<<>>,
                        <<Fn("main", "main", IF t.some THEN "parallel" ELSE "block_on",
                             t.num, t.auto, o.crate_root)>>, o)

\* `main`: the item and the options are parsed (a failure to parse returns the
\* error), then the checks, then the function with or without threads.
MacroMain(f, input, auto) ==
    LET o == OptsParse(input)
    IN  IF ~o.ok THEN Tokens(<<o.err>>, <<>>, o)
        ELSE IF MainChecks(f) # NoDiag THEN Tokens(<<MainChecks(f)>>, <<>>, o)
        ELSE LET t == ThreadsExpr(o, auto)
             IN  Tokens(<<>>,
                        <<Fn("main", "main", IF t.some THEN "parallel" ELSE "block_on",
                             t.num, t.auto, o.crate_root)>>, o)

\* Mutant: the threads check comes after the parameters check.
TestChecksThreadsLast(f, o) ==
    IF f.inputs # 0
    THEN Diag("UnexpectedParameters", "tests cannot take parameters")
    ELSE IF o.threads.some
    THEN Diag("ThreadsNotAllowed", "tests cannot have threads attribute")
    ELSE IF ~f.asyncness THEN NotAsyncDiag
    ELSE NoDiag

\* The checks of `test`, in the order of the code: threads, parameters, async.
TestChecks(f, o) ==
    IF o.threads.some
    THEN Diag("ThreadsNotAllowed", "tests cannot have threads attribute")
    ELSE IF f.inputs # 0
    THEN Diag("UnexpectedParameters", "tests cannot take parameters")
    ELSE IF ~f.asyncness THEN NotAsyncDiag
    ELSE NoDiag

MacroTest(f, input) ==
    LET o == OptsParse(input)
    IN  IF ~o.ok THEN Tokens(<<o.err>>, <<>>, o)
        ELSE IF TestChecks(f, o) # NoDiag THEN Tokens(<<TestChecks(f, o)>>, <<>>, o)
        ELSE Tokens(<<>>, <<Fn("test", f.name, "block_on", 0, FALSE, o.crate_root)>>, o)

\* Mutant: `async` is checked first.
BenchChecksAsyncFirst(f, o) ==
    IF ~f.asyncness THEN NotAsyncDiag
    ELSE IF o.threads.some
    THEN Diag("ThreadsNotAllowed", "benchmarks cannot have threads attribute")
    ELSE IF f.inputs # 0
    THEN Diag("UnexpectedParameters", "benchmarks cannot take parameters")
    ELSE NoDiag

\* The checks of `bench`, in the order of the code: threads, parameters, async.
BenchChecks(f, o) ==
    IF o.threads.some
    THEN Diag("ThreadsNotAllowed", "benchmarks cannot have threads attribute")
    ELSE IF f.inputs # 0
    THEN Diag("UnexpectedParameters", "benchmarks cannot take parameters")
    ELSE IF ~f.asyncness THEN NotAsyncDiag
    ELSE NoDiag

MacroBench(f, input) ==
    LET o == OptsParse(input)
    IN  IF ~o.ok THEN Tokens(<<o.err>>, <<>>, o)
        ELSE IF BenchChecks(f, o) # NoDiag THEN Tokens(<<BenchChecks(f, o)>>, <<>>, o)
        ELSE Tokens(<<>>, <<Fn("bench", f.name, "block_on", 0, FALSE, o.crate_root)>>, o)

----------------------------------------------------------------------------
(* State machine *)

NoValue == "none"

Results == {"Ok", "Err"}

Workers == 1..(MaxThreads + 1)

Init ==
    /\ kind \in Kinds
    /\ item \in Items
    /\ args \in ArgLists
    /\ opts = ParseErr(NoDiag)
    /\ diags = <<>>
    /\ gen = <<>>
    /\ pc = "expand"
    /\ inner = "none"
    /\ r = NoValue
    /\ ret = NoValue
    /\ iters = 0
    /\ nthreads = 0
    /\ workers = [w \in Workers |-> "unspawned"]
    /\ closed = FALSE
    /\ observed = [w \in Workers |-> 0]
    /\ resolves = 0
    /\ drops = 0

\* One proc-macro call of the macro crate.  The cargo feature "auto" is part
\* of the build and only read by `main`.
Expand ==
    /\ pc = "expand"
    /\ \E auto \in BOOLEAN :
         LET out == CASE kind = "main" -> MacroMain(item, args, auto)
                      [] kind = "test" -> MacroTest(item, args)
                      [] kind = "bench" -> MacroBench(item, args)
         IN  /\ kind # "main" => auto = FALSE
             /\ opts' = out.opts
             /\ diags' = out.diags
             /\ gen' = out.gen
             /\ pc' = IF out.gen # <<>> THEN "ready" ELSE "compile_error"
    /\ UNCHANGED <<inputVars, runVars>>

----------------------------------------------------------------------------
(* Execution of the generated function (macro crate) *)

Generated == gen[1]

\* `let threads = #threads`: the literal, or max(num_cpus::get(), 1)
ThreadCounts(g) ==
    IF g.auto
    THEN {IF cpus > 1 THEN cpus ELSE 1 : cpus \in 0..MaxThreads}
    ELSE {g.threads}

\* `main().await` passes no argument: a generated function whose inner
\* function kept parameters (root crate) is rejected by the compiler.
InnerCallCompiles == item.inputs = 0

\* The harness calls the generated function; `#crate_root::block_on(...)`
\* starts polling the async body on the calling thread.
CallBlockOn ==
    /\ pc = "ready"
    /\ Generated.policy = "block_on"
    /\ InnerCallCompiles
    /\ pc' = "block"
    /\ inner' = "pending"
    /\ iters' = 1
    /\ UNCHANGED <<inputVars, opts, diags, gen, r, ret, nthreads, workers, closed,
                   observed, resolves, drops>>

\* Executor::new(), unbounded::<()>() and `let threads`.
CallParallel ==
    /\ pc = "ready"
    /\ Generated.policy = "parallel"
    /\ \E n \in ThreadCounts(Generated) : nthreads' = n
    /\ closed' = FALSE
    /\ pc' = "spawn"
    /\ UNCHANGED <<inputVars, opts, diags, gen, inner, r, ret, iters, workers,
                   observed, resolves, drops>>

\* `.each(0..threads, ...)`: a closure is left to spawn
SpawnMore == \E w \in 1..nthreads : workers[w] = "unspawned"

\* Parallel::finish spawns one thread per closure, in order, before it runs
\* the finish closure.
Spawn ==
    /\ pc = "spawn"
    /\ SpawnMore
    /\ LET w == CHOOSE v \in 1..nthreads :
                   /\ workers[v] = "unspawned"
                   /\ \A u \in 1..(v - 1) : workers[u] # "unspawned"
       IN  workers' = [workers EXCEPT ![w] = "polling"]
    /\ UNCHANGED <<inputVars, opts, diags, gen, pc, inner, r, ret, iters, nthreads,
                   closed, observed, resolves, drops>>

\* The finish closure: block_on(async { let r = main().await; ... })
StartMain ==
    /\ pc = "spawn"
    /\ ~SpawnMore
    /\ pc' = "block"
    /\ inner' = "pending"
    /\ iters' = 1
    /\ UNCHANGED <<inputVars, opts, diags, gen, r, ret, nthreads, workers, closed,
                   observed, resolves, drops>>

\* The user's async body runs to completion (it may also never do so).
InnerResolve ==
    /\ pc = "block"
    /\ inner = "pending"
    /\ \E v \in Results : r' = v
    /\ inner' = "resolved"
    /\ resolves' = resolves + 1
    /\ UNCHANGED <<inputVars, opts, diags, gen, pc, ret, iters, nthreads, workers,
                   closed, observed, drops>>

\* shutdown.recv() is ready with Err(Closed) once the channel is closed and
\* empty; nothing is ever sent on it.
RecvReady == closed

\* A worker: block_on(ex.run(shutdown.recv())).  The executor holds no task,
\* so the worker polls recv() and parks until it is woken.
WorkerPoll(w) ==
    /\ workers[w] = "polling"
    /\ IF RecvReady
       THEN /\ workers' = [workers EXCEPT ![w] = "exited"]
            /\ observed' = [observed EXCEPT ![w] = @ + 1]
       ELSE /\ workers' = [workers EXCEPT ![w] = "parked"]
            /\ UNCHANGED observed
    /\ UNCHANGED <<inputVars, opts, diags, gen, pc, inner, r, ret, iters, nthreads,
                   closed, resolves, drops>>

\* Mutant: the sender is dropped without waiting for main().
DropBeforeAwait == TRUE

\* `let r = main().await;` comes before `drop(signal)`
MainAwaited == inner = "resolved"

\* Mutant: the sender is kept alive (a clone outlives the drop): nothing closes.
SignalLeaked ==
    /\ closed' = closed
    /\ workers' = workers

\* Dropping the only Sender closes the channel and wakes every receiver
\* waiting on it.
CloseChannel ==
    /\ closed' = TRUE
    /\ workers' = [w \in Workers |-> IF workers[w] = "parked" THEN "polling"
                                     ELSE workers[w]]

DropSignal ==
    /\ pc = "block"
    /\ Generated.policy = "parallel"
    /\ MainAwaited
    /\ CloseChannel
    /\ drops' = drops + 1
    /\ pc' = "join"
    /\ UNCHANGED <<inputVars, opts, diags, gen, inner, r, ret, iters, nthreads,
                   observed, resolves>>

\* Parallel::finish joins every thread it spawned before it returns.
AllJoined == \A w \in 1..nthreads : workers[w] = "exited"

\* `let (_, r) = ...finish(...); r`
Join ==
    /\ pc = "join"
    /\ AllJoined
    /\ pc' = "returned"
    /\ ret' = r
    /\ UNCHANGED <<inputVars, opts, diags, gen, inner, r, iters, nthreads, workers,
                   closed, observed, resolves, drops>>

\* Mutant: the future is started and not waited for.
BlockOnNoWait == TRUE

\* block_on returns when the future it drives is ready.
BlockOnDone == inner = "resolved"

\* The generated function returns: `main` and `test` the value of block_on,
\* `bench` unit once b.iter stops calling the closure.
Return ==
    /\ pc = "block"
    /\ Generated.policy \in {"block_on", "detached"}
    /\ BlockOnDone
    /\ pc' = "returned"
    /\ ret' = IF Generated.kind = "bench" THEN "unit" ELSE r
    /\ UNCHANGED <<inputVars, opts, diags, gen, inner, r, iters, nthreads, workers,
                   closed, observed, resolves, drops>>

\* b.iter(|| block_on(async { body })): the harness calls the closure again.
BenchIter ==
    /\ pc = "block"
    /\ Generated.kind = "bench"
    /\ BlockOnDone
    /\ iters < MaxIters
    /\ inner' = "pending"
    /\ iters' = iters + 1
    /\ UNCHANGED <<inputVars, opts, diags, gen, pc, r, ret, nthreads, workers,
                   closed, observed, resolves, drops>>

Next ==
    \/ Expand
    \/ CallBlockOn
    \/ CallParallel
    \/ Spawn
    \/ StartMain
    \/ InnerResolve
    \/ \E w \in Workers : WorkerPoll(w)
    \/ DropSignal
    \/ Join
    \/ Return
    \/ BenchIter

Spec == Init /\ [][Next]_vars

\* Every thread that can take a step eventually takes one; nothing obliges
\* the user's async body to finish.
Fairness ==
    /\ WF_vars(Spawn)
    /\ WF_vars(StartMain)
    /\ WF_vars(DropSignal)
    /\ WF_vars(Join)
    /\ \A w \in Workers : WF_vars(WorkerPoll(w))

FairSpec == Spec /\ Fairness

----------------------------------------------------------------------------
(* The root crate's `main` (src/src/lib.rs): expansion and execution *)

RootErr(d) == [ok |-> FALSE, err |-> d, threads |-> None]

\* `for arg in args`: only `threads` is known; the literal is parsed as u32
\* and unwrapped, and kept only when it is greater than 1.
RECURSIVE RootArgs(_, _, _)
RootArgs(input, i, threads) ==
    IF i > Len(input) THEN [ok |-> TRUE, err |-> NoDiag, threads |-> threads]
    ELSE LET namevalue == input[i]
         IN  IF to_lowercase(namevalue.key) = "threads"
             THEN IF namevalue.lit.type = "Int"
                  THEN LET num == base10_parse_u32(namevalue.lit)
                       IN  IF ~num.ok
                           THEN RootErr(Diag("Panic", "called Result::unwrap() on an Err value"))
                           ELSE RootArgs(input, i + 1,
                                         IF num.num > 1 THEN Some(num.num) ELSE threads)
                  ELSE RootErr(Diag("InvalidThreadsValue", "threads argument must be an int"))
             ELSE RootErr(Diag("UnknownOption",
                               "Unknown attribute pair {} is specified; expected: threads"))

RootMain(f, input) ==
    LET a == RootArgs(input, 1, None)
    IN  IF ~a.ok THEN Tokens(<<a.err>>, <<>>, opts)
        ELSE IF f.name # "main" THEN Tokens(<<WrongNameDiag>>, <<>>, opts)
        ELSE IF ~f.asyncness THEN Tokens(<<NotAsyncDiag>>, <<>>, opts)
        ELSE Tokens(<<>>,
                    <<Fn("main", "main", IF a.threads.some THEN "detached" ELSE "block_on",
                         a.threads.num, FALSE, "smol")>>, opts)

RootInit == Init /\ kind = "main"

RootExpand ==
    /\ pc = "expand"
    /\ LET out == RootMain(item, args)
       IN  /\ diags' = out.diags
           /\ gen' = out.gen
           /\ pc' = IF out.gen # <<>> THEN "ready" ELSE "compile_error"
    /\ UNCHANGED <<inputVars, opts, runVars>>

\* `for _ in 0..#num { std::thread::spawn(...) }`
RootCallDetached ==
    /\ pc = "ready"
    /\ Generated.policy = "detached"
    /\ InnerCallCompiles
    /\ nthreads' = Generated.threads
    /\ pc' = "spawn"
    /\ UNCHANGED <<inputVars, opts, diags, gen, inner, r, ret, iters, workers, closed,
                   observed, resolves, drops>>

\* Mutant: the workers run a future that is ready at once.
ReadyAtOnce == TRUE

\* futures::future::pending::<()>() is never ready
PendingReady == FALSE

\* A detached worker: smol::run(futures::future::pending::<()>())
RootWorkerPoll(w) ==
    /\ workers[w] = "polling"
    /\ workers' = [workers EXCEPT ![w] = IF PendingReady THEN "exited" ELSE "parked"]
    /\ UNCHANGED <<inputVars, opts, diags, gen, pc, inner, r, ret, iters, nthreads,
                   closed, observed, resolves, drops>>

RootNext ==
    \/ RootExpand
    \/ CallBlockOn
    \/ RootCallDetached
    \/ Spawn
    \/ StartMain
    \/ InnerResolve
    \/ \E w \in Workers : RootWorkerPoll(w)
    \/ Return

RootSpec == RootInit /\ [][RootNext]_vars

----------------------------------------------------------------------------
(* Vocabulary of the properties *)

Expanded == pc # "expand"

IsThreads(nv) == nv.key \in {"threads", "THREADS"}

IsCrate(nv) == nv.key = "crate"

\* the literal is an integer in 1 .. 2^32 - 1
PositiveU32(lit) == lit.type = "Int" /\ lit.hi < Half /\ ~(lit.hi = 0 /\ lit.lo = 0)

ValidNameValue(nv) ==
    \/ IsThreads(nv) /\ PositiveU32(nv.lit)
    \/ IsCrate(nv) /\ nv.lit.type = "Str" /\ nv.lit.str \in {"a", "b"}

SameOption(x, y) == (IsThreads(x) /\ IsThreads(y)) \/ (IsCrate(x) /\ IsCrate(y))

\* every option is known and well-formed, and none is given twice
ArgsValid(a) ==
    /\ \A i \in 1..Len(a) : ValidNameValue(a[i])
    /\ \A i \in 1..Len(a) : \A j \in 1..Len(a) : i < j => ~SameOption(a[i], a[j])

HasThreads(a) == \E i \in 1..Len(a) : IsThreads(a[i])

OptionKinds == {"InvalidThreadsValue", "InvalidCrateValue", "UnknownOption", "DuplicateOption"}

SignatureKinds == {"NotAsync", "WrongName", "UnexpectedParameters"}

SignatureInvalid ==
    \/ ~item.asyncness
    \/ item.inputs # 0
    \/ kind = "main" /\ item.name # "main"

OneDiag(k) == Len(diags) = 1 /\ diags[1].kind = k /\ gen = <<>>

IsParallel == gen # <<>> /\ gen[1].policy = "parallel"

IsDetached == gen # <<>> /\ gen[1].policy = "detached"

Spawned == {w \in Workers : workers[w] # "unspawned"}

----------------------------------------------------------------------------
(* C1 *)

C1_Started ==
    (IsParallel /\ opts.threads.some /\ pc \in {"block", "join", "returned"}) =>
        /\ nthreads = opts.threads.num
        /\ nthreads >= 1
        /\ Spawned = 1..nthreads
        /\ resolves <= 1
        /\ (closed => inner = "resolved")

C1_Converged ==
    /\ pc = "returned"
    /\ \A w \in 1..nthreads : workers[w] = "exited" /\ observed[w] = 1
    /\ ret = r
    /\ ret \in Results

\* C1: generated `main` with explicit threads = N starts N workers on the one
\* shutdown channel; once the inner async main has resolved (at most once), the
\* sender is dropped, every worker observes the closed channel and exits, and
\* main returns the inner result - under weak fairness of every thread.
C1_ShutdownConverges ==
    /\ []C1_Started
    /\ ((IsParallel /\ opts.threads.some /\ inner = "resolved") ~> C1_Converged)

C1_Witness ==
    /\ IsParallel
    /\ opts.threads.some
    /\ nthreads = MaxThreads
    /\ C1_Converged

----------------------------------------------------------------------------
(* C2 *)

\* C2: no generated function (main, test, bench; block_on path and threads
\* path) returns while the async body is pending: it returns only after every
\* blocking call it started has resolved, and main and test return the value
\* the inner future resolved to.
C2_ReturnsOnlyAfterResolve ==
    /\ Expanded /\ gen # <<>> =>
          /\ resolves <= iters
          /\ iters <= resolves + 1
          /\ (inner = "pending" <=> iters = resolves + 1)
    /\ pc = "returned" =>
          /\ inner = "resolved"
          /\ iters >= 1
          /\ resolves = iters
          /\ (gen[1].kind \in {"main", "test"} => ret = r /\ ret \in Results)

C2_Witness ==
    /\ pc = "returned"
    /\ gen[1].kind = "bench"
    /\ iters = MaxIters
    /\ resolves = MaxIters

----------------------------------------------------------------------------
(* C3 *)

\* C3: with explicit threads all workers wait on the one channel; it is
\* closed once, only after the inner async main resolved, so no worker exits
\* before that; a worker exits after observing exactly one closed-channel
\* event, in no particular order among the workers.
C3_NoWorkerExitsEarly ==
    IsParallel =>
        /\ drops <= 1
        /\ (closed <=> drops = 1)
        /\ (closed => inner = "resolved")
        /\ \A w \in Workers :
              /\ observed[w] <= 1
              /\ (workers[w] = "exited" <=> observed[w] = 1)
              /\ (workers[w] = "exited" => inner = "resolved" /\ closed)

C3_Witness ==
    /\ IsParallel
    /\ nthreads >= 2
    /\ workers[2] = "exited"
    /\ workers[1] = "polling"
    /\ observed[1] = 0

----------------------------------------------------------------------------
(* C4 *)

----------------------------------------------------------------------------
(* C5 *)

\* C5 as stated: a function without `async` always fails with NotAsync,
\* whatever the attribute and whatever else is wrong.
C5_AlwaysNotAsync ==
    (Expanded /\ ~item.asyncness) => OneDiag("NotAsync")

\* the checks the macro makes before it looks at `async`
C5_EarlierChecksPass ==
    /\ ArgsValid(args)
    /\ item.inputs = 0
    /\ kind = "main" => item.name = "main"
    /\ kind # "main" => ~HasThreads(args)

\* C5 as amended: a function without `async` never expands to a function; it
\* fails with one diagnostic, which is NotAsync exactly when the options parse,
\* there are no parameters, main is named main and test/bench have no threads.
C5_NotAsyncWhenReached ==
    (Expanded /\ ~item.asyncness) =>
        /\ gen = <<>>
        /\ Len(diags) = 1
        /\ (diags[1].kind = "NotAsync" <=> C5_EarlierChecksPass)

C5_Witness ==
    /\ Expanded
    /\ ~item.asyncness
    /\ kind = "bench"
    /\ Len(args) = 1
    /\ OneDiag("NotAsync")

----------------------------------------------------------------------------
(* C6 *)

\* C6: main with threads = 0 fails with InvalidThreadsValue and generates
\* nothing; every Options record Opts::parse returns has threads absent or
\* greater than zero.
C6_ThreadsPositive ==
    Expanded =>
        /\ (kind = "main" /\ args # <<>> /\ IsThreads(args[1])
              /\ args[1].lit = IntLit(0, 0)) => OneDiag("InvalidThreadsValue")
        /\ (opts.ok /\ opts.threads.some) => opts.threads.num > 0
        /\ (opts.ok /\ HasThreads(args)) => opts.threads.some

C6_Witness ==
    /\ Expanded
    /\ kind = "main"
    /\ item = [name |-> "main", inputs |-> 0, asyncness |-> TRUE]
    /\ args = <<[key |-> "threads", lit |-> IntLit(0, 0)]>>
    /\ OneDiag("InvalidThreadsValue")

----------------------------------------------------------------------------
(* C7 *)

C7_OnlyThreads == Len(args) = 1 /\ IsThreads(args[1]) /\ args[1].lit.type = "Int"

\* C7 as stated: test or bench with threads = N fails with ThreadsNotAllowed
\* for every N and every function.
C7_AnyN ==
    (Expanded /\ kind \in {"test", "bench"} /\ C7_OnlyThreads) =>
        OneDiag("ThreadsNotAllowed")

\* C7 as amended: test or bench with threads = N fails with ThreadsNotAllowed
\* for every function when N is an integer in 1 .. 2^32 - 1 (and whenever the
\* option list parses and holds threads); with N = 0 or N too large the option
\* parser fails first, with InvalidThreadsValue.
C7_PositiveN ==
    (Expanded /\ kind \in {"test", "bench"}) =>
        /\ C7_OnlyThreads =>
              IF PositiveU32(args[1].lit) THEN OneDiag("ThreadsNotAllowed")
              ELSE OneDiag("InvalidThreadsValue")
        /\ (ArgsValid(args) /\ HasThreads(args)) => OneDiag("ThreadsNotAllowed")

C7_Witness ==
    /\ Expanded
    /\ kind = "test"
    /\ C7_OnlyThreads
    /\ args[1].lit = IntLit(0, MaxThreads)
    /\ item.inputs = 1
    /\ ~item.asyncness
    /\ OneDiag("ThreadsNotAllowed")

----------------------------------------------------------------------------
(* C8 *)

\* C8 as stated: the same key twice fails with DuplicateOption whatever the
\* second value is (the first occurrence being a valid option).
C8_AnySecondValue ==
    (Expanded /\ Len(args) = 2 /\ ValidNameValue(args[1])
       /\ SameOption(args[1], args[2])) => OneDiag("DuplicateOption")

\* the literal has the type the key wants
C8_RightType(nv) ==
    \/ IsThreads(nv) /\ nv.lit.type = "Int"
    \/ IsCrate(nv) /\ nv.lit.type = "Str"

\* C8 as amended: when the options before it are valid, a second occurrence of
\* threads or crate fails with DuplicateOption if its value is a literal of the
\* key's type (integer for threads, string for crate), whatever that value is;
\* a second occurrence with a literal of the other type fails with
\* InvalidThreadsValue or InvalidCrateValue instead.
C8_SecondOfRightType ==
    Expanded =>
        \A j \in 2..Len(args) :
            (/\ ArgsValid(SubSeq(args, 1, j - 1))
             /\ \E i \in 1..(j - 1) : SameOption(args[i], args[j])) =>
                IF C8_RightType(args[j]) THEN OneDiag("DuplicateOption")
                ELSE IF IsThreads(args[j]) THEN OneDiag("InvalidThreadsValue")
                ELSE OneDiag("InvalidCrateValue")

C8_Witness ==
    /\ Expanded
    /\ args = <<[key |-> "crate", lit |-> StrLit("a")], [key |-> "crate", lit |-> StrLit("1x")]>>
    /\ OneDiag("DuplicateOption")

----------------------------------------------------------------------------
(* C9 *)

\* C9 as stated: the signature is validated before the options are parsed, so
\* with both invalid the one diagnostic is the signature's.
C9_SignatureFirst ==
    (Expanded /\ SignatureInvalid /\ ~ArgsValid(args)) =>
        Len(diags) = 1 /\ diags[1].kind \in SignatureKinds

\* C9 as amended: the options are parsed first, then the signature is
\* validated, then the function is generated, each failing fast: with both
\* invalid the one diagnostic is the option parser's; the signature's
\* diagnostic (or ThreadsNotAllowed) is reported only when the options parse.
C9_OptionsFirst ==
    Expanded =>
        /\ ~ArgsValid(args) =>
              Len(diags) = 1 /\ diags[1].kind \in OptionKinds /\ gen = <<>>
        /\ (ArgsValid(args) /\ SignatureInvalid) =>
              /\ Len(diags) = 1
              /\ diags[1].kind \in SignatureKinds \cup {"ThreadsNotAllowed"}
              /\ gen = <<>>

C9_Witness ==
    /\ Expanded
    /\ kind = "main"
    /\ item.name # "main"
    /\ ~ArgsValid(args)
    /\ OneDiag("UnknownOption")

----------------------------------------------------------------------------
(* C10 *)

\* the first failing check, in the order the macro makes them
C10_Expected ==
    IF ~ArgsValid(args) THEN OptionKinds
    ELSE IF kind = "main" /\ item.name # "main" THEN {"WrongName"}
    ELSE IF kind # "main" /\ HasThreads(args) THEN {"ThreadsNotAllowed"}
    ELSE IF item.inputs # 0 THEN {"UnexpectedParameters"}
    ELSE IF ~item.asyncness THEN {"NotAsync"}
    ELSE {}

\* C10: an expansion ends in one diagnostic and no function, or one function
\* and no diagnostic; the diagnostic is the first failure in the order: option
\* parsing; then WrongName, UnexpectedParameters, NotAsync for main,
\* ThreadsNotAllowed, UnexpectedParameters, NotAsync for test and bench.
C10_OneOutcomeByPrecedence ==
    Expanded =>
        /\ Len(diags) + Len(gen) = 1
        /\ IF C10_Expected = {}
           THEN diags = <<>> /\ gen[1].name = item.name /\ gen[1].kind = kind
           ELSE gen = <<>> /\ diags[1].kind \in C10_Expected

C10_Witness ==
    /\ Expanded
    /\ kind = "bench"
    /\ ArgsValid(args)
    /\ HasThreads(args)
    /\ item.inputs = 1
    /\ ~item.asyncness
    /\ OneDiag("ThreadsNotAllowed")

====
